---- MODULE Spec2Model ----
(***************************************************************************)
(* The Dashboard page of gofinances-web (src/pages/Dashboard/index.tsx):   *)
(* the React state of the component, its event handlers, the continuations *)
(* of its two asynchronous handlers, and the remote transaction source     *)
(* those handlers talk to.                                                 *)
(*                                                                         *)
(* A handler is one action.  An asynchronous handler is split at its       *)
(* await: the part before it is one action, each way the awaited promise   *)
(* can settle is another.  The effect of lines 92-94 runs as part of the   *)
(* step that changes loadTransactions' identity (mount, or a change of     *)
(* currentPage).  The handlers wired to the table rows and to the          *)
(* pagination control can only be invoked while those elements are         *)
(* rendered, which line 188 makes conditional on loadingCards.             *)
(***************************************************************************)
EXTENDS Integers, Sequences, FiniteSets

\* ------------------------------------------------------------- bounds ----
NumTx == 6          \* transactions in the remote source at the start
MaxRequests == 3    \* GET and DELETE requests issued in one behaviour

\* ---------------------------------------------------- program constants --
limitPerPage == 5

VARIABLES
  mounted,             \* the component has been mounted (first effect ran)
  transactions,        \* useState<Transaction[]>([])
  balance,             \* useState<Balance>({} as Balance)
  currentPage,         \* useState(1)
  modalIsOpen,         \* useState(false)
  editingTransaction,  \* useState<Transaction>({} as Transaction)
  totalTransactions,   \* useState(0)
  loadingCards,        \* useState(false)
  inflight,            \* GET requests awaiting their response
  pendingDeletes,      \* DELETE requests awaiting their response
  toasts,              \* number of toast.success calls so far
  db,                  \* ids held by the remote transaction source
  nFetches,            \* GET requests issued so far
  nDeletes,            \* DELETE requests issued so far
  lastResponse,        \* history: data of the last GET that resolved
  deletedSince,        \* history: ids deleted with success since that GET
  settled              \* history: the request that settled last, and how

vars == <<mounted, transactions, balance, currentPage, modalIsOpen,
          editingTransaction, totalTransactions, loadingCards, inflight,
          pendingDeletes, toasts, db, nFetches, nDeletes, lastResponse,
          deletedSince, settled>>

\* ------------------------------------------------------------ helpers ----
EmptyObject == [x \in {} |-> 0]

Ids == 1..NumTx

TxType(i) == IF i % 2 = 1 THEN "income" ELSE "outcome"

Tx(i) == [id |-> i, type |-> TxType(i), value |-> i]

IdsOf(list) == {list[k].id : k \in 1..Len(list)}

RECURSIVE Sum(_, _)
Sum(S, kind) ==
  IF S = {} THEN 0
  ELSE LET i == CHOOSE x \in S : TRUE
       IN (IF TxType(i) = kind THEN i ELSE 0) + Sum(S \ {i}, kind)

RECURSIVE Ascending(_)
Ascending(S) ==
  IF S = {} THEN <<>>
  ELSE LET m == CHOOSE x \in S : \A y \in S : x <= y
       IN <<Tx(m)>> \o Ascending(S \ {m})

Skip(list, n) == IF n >= Len(list) THEN <<>> ELSE SubSeq(list, n + 1, Len(list))

Take(list, n) == IF n >= Len(list) THEN list ELSE SubSeq(list, 1, n)

\* GET /transactions?page=P&limit=L answered from the remote set S
GetTransactions(S, page, limit) ==
  [transactions |-> Take(Skip(Ascending(S), (page - 1) * limit), limit),
   balance |-> [income |-> Sum(S, "income"),
                outcome |-> Sum(S, "outcome"),
                total |-> Sum(S, "income") - Sum(S, "outcome")],
   totalTransactions |-> Cardinality(S)]

\* the balance object loadTransactions builds from the response
ResponseBalanceMutSwapped(data) ==
  [income |-> data.balance.income,
   outcome |-> data.balance.income,
   total |-> data.balance.total]

ResponseBalance(data) ==
  [income |-> data.balance.income,
   outcome |-> data.balance.outcome,
   total |-> data.balance.total]

\* transactions.filter(transaction => transaction.id !== id)
FilterOutMutInverted(list, id) == SelectSeq(list, LAMBDA t : t.id = id)

FilterOut(list, id) == SelectSeq(list, LAMBDA t : t.id # id)

\* the page numbers the pagination control renders: totalItemsCount items,
\* itemsCountPerPage to a page
PagesOffered == 1..((totalTransactions + limitPerPage - 1) \div limitPerPage)

\* ------------------------------------------------------------ initial ----
Init ==
  /\ mounted = FALSE
  /\ transactions = <<>>
  /\ balance = EmptyObject
  /\ currentPage = 1
  /\ modalIsOpen = FALSE
  /\ editingTransaction = EmptyObject
  /\ totalTransactions = 0
  /\ loadingCards = FALSE
  /\ inflight = {}
  /\ pendingDeletes = {}
  /\ toasts = 0
  /\ db = Ids
  /\ nFetches = 0
  /\ nDeletes = 0
  /\ lastResponse = EmptyObject
  /\ deletedSince = {}
  /\ settled = [op |-> "none"]

\* ------------------------------------------------------------ actions ----
\* loadTransactions up to its await: the busy flag, then the GET
loadTransactionsMutStalePage(page) ==
  /\ loadingCards' = TRUE
  /\ inflight' = inflight \cup
       {[seq |-> nFetches + 1, page |-> currentPage, limit |-> limitPerPage]}
  /\ nFetches' = nFetches + 1

loadTransactions(page) ==
  /\ loadingCards' = TRUE
  /\ inflight' = inflight \cup
       {[seq |-> nFetches + 1, page |-> page, limit |-> limitPerPage]}
  /\ nFetches' = nFetches + 1

\* first render committed: the effect of lines 92-94 runs once
Mount ==
  /\ ~mounted
  /\ mounted' = TRUE
  /\ loadTransactions(currentPage)
  /\ UNCHANGED <<transactions, balance, currentPage, modalIsOpen,
                 editingTransaction, totalTransactions, pendingDeletes,
                 toasts, db, nDeletes, lastResponse, deletedSince, settled>>

\* the GET resolved: the rest of loadTransactions
FetchOkMutAppend(r) ==
  LET response == GetTransactions(db, r.page, r.limit) IN
  /\ r \in inflight
  /\ transactions' = transactions \o response.transactions
  /\ balance' = ResponseBalance(response)
  /\ totalTransactions' = response.totalTransactions
  /\ loadingCards' = FALSE
  /\ inflight' = inflight \ {r}
  /\ lastResponse' = response
  /\ deletedSince' = {}
  /\ pendingDeletes' = {[d EXCEPT !.clean = FALSE] : d \in pendingDeletes}
  /\ settled' = [op |-> "fetchOk", req |-> r]
  /\ UNCHANGED <<mounted, currentPage, modalIsOpen, editingTransaction,
                 toasts, db, nFetches, nDeletes>>

FetchOk(r) ==
  LET response == GetTransactions(db, r.page, r.limit) IN
  /\ r \in inflight
  /\ transactions' = response.transactions
  /\ balance' = ResponseBalance(response)
  /\ totalTransactions' = response.totalTransactions
  /\ loadingCards' = FALSE
  /\ inflight' = inflight \ {r}
  /\ lastResponse' = response
  /\ deletedSince' = {}
  /\ pendingDeletes' = {[d EXCEPT !.clean = FALSE] : d \in pendingDeletes}
  /\ settled' = [op |-> "fetchOk", req |-> r]
  /\ UNCHANGED <<mounted, currentPage, modalIsOpen, editingTransaction,
                 toasts, db, nFetches, nDeletes>>

\* the GET rejected: loadTransactions stops at its await
FetchFailMutFinally(r) ==
  /\ r \in inflight
  /\ inflight' = inflight \ {r}
  /\ loadingCards' = FALSE
  /\ settled' = [op |-> "fetchFail", req |-> r]
  /\ UNCHANGED <<mounted, transactions, balance, currentPage, modalIsOpen,
                 editingTransaction, totalTransactions,
                 pendingDeletes, toasts, db, nFetches, nDeletes,
                 lastResponse, deletedSince>>

FetchFail(r) ==
  /\ r \in inflight
  /\ inflight' = inflight \ {r}
  /\ settled' = [op |-> "fetchFail", req |-> r]
  /\ UNCHANGED <<mounted, transactions, balance, currentPage, modalIsOpen,
                 editingTransaction, totalTransactions, loadingCards,
                 pendingDeletes, toasts, db, nFetches, nDeletes,
                 lastResponse, deletedSince>>

\* the pagination control's onChange; a new page re-creates
\* loadTransactions and so re-runs the effect
handleChangePage(prevOrNext) ==
  /\ mounted
  /\ ~loadingCards
  /\ currentPage' = prevOrNext
  /\ IF prevOrNext # currentPage
       THEN /\ nFetches + nDeletes < MaxRequests
            /\ loadTransactions(prevOrNext)
       ELSE UNCHANGED <<loadingCards, inflight, nFetches>>
  /\ UNCHANGED <<mounted, transactions, balance, modalIsOpen,
                 editingTransaction, totalTransactions, pendingDeletes,
                 toasts, db, nDeletes, lastResponse, deletedSince, settled>>

\* a row's delete button, up to the await: the DELETE goes out and the
\* callback keeps the transactions of the render it was created in
handleDeleteTransaction(id) ==
  /\ mounted
  /\ ~loadingCards
  /\ id \in IdsOf(transactions)
  /\ nFetches + nDeletes < MaxRequests
  /\ nDeletes' = nDeletes + 1
  /\ pendingDeletes' = pendingDeletes \cup
       {[seq |-> nDeletes + 1, id |-> id, closure |-> transactions,
         clean |-> TRUE, peers |-> {}, total0 |-> totalTransactions]}
  /\ UNCHANGED <<mounted, transactions, balance, currentPage, modalIsOpen,
                 editingTransaction, totalTransactions, loadingCards,
                 inflight, toasts, db, nFetches, lastResponse, deletedSince,
                 settled>>

\* the DELETE resolved: toast, filter, setTransactions
DeleteOk(d) ==
  /\ d \in pendingDeletes
  /\ db' = db \ {d.id}
  /\ toasts' = toasts + 1
  /\ transactions' = FilterOut(d.closure, d.id)
  /\ pendingDeletes' =
       {[p EXCEPT !.peers = IF d.clean THEN @ \cup {d.id} ELSE @] :
          p \in pendingDeletes \ {d}}
  /\ deletedSince' = deletedSince \cup {d.id}
  /\ settled' = [op |-> "deleteOk", req |-> d]
  /\ UNCHANGED <<mounted, balance, currentPage, modalIsOpen,
                 editingTransaction, totalTransactions, loadingCards,
                 inflight, nFetches, nDeletes, lastResponse>>

\* the DELETE rejected: handleDeleteTransaction stops at its await
DeleteFailMutFinally(d) ==
  /\ d \in pendingDeletes
  /\ pendingDeletes' = pendingDeletes \ {d}
  /\ toasts' = toasts + 1
  /\ transactions' = FilterOut(d.closure, d.id)
  /\ settled' = [op |-> "deleteFail", req |-> d]
  /\ UNCHANGED <<mounted, balance, currentPage, modalIsOpen,
                 editingTransaction, totalTransactions, loadingCards,
                 inflight, db, nFetches, nDeletes, lastResponse,
                 deletedSince>>

DeleteFail(d) ==
  /\ d \in pendingDeletes
  /\ pendingDeletes' = pendingDeletes \ {d}
  /\ settled' = [op |-> "deleteFail", req |-> d]
  /\ UNCHANGED <<mounted, transactions, balance, currentPage, modalIsOpen,
                 editingTransaction, totalTransactions, loadingCards,
                 inflight, toasts, db, nFetches, nDeletes, lastResponse,
                 deletedSince>>

\* a row's edit button
openModal(transaction) ==
  /\ mounted
  /\ ~loadingCards
  /\ \E k \in 1..Len(transactions) : transactions[k] = transaction
  /\ editingTransaction' = transaction
  /\ modalIsOpen' = TRUE
  /\ UNCHANGED <<mounted, transactions, balance, currentPage,
                 totalTransactions, loadingCards, inflight, pendingDeletes,
                 toasts, db, nFetches, nDeletes, lastResponse, deletedSince,
                 settled>>

\* the modal's close callback; the modal is shown only while isOpen
closeModal ==
  /\ mounted
  /\ modalIsOpen
  /\ modalIsOpen' = FALSE
  /\ UNCHANGED <<mounted, transactions, balance, currentPage,
                 editingTransaction, totalTransactions, loadingCards,
                 inflight, pendingDeletes, toasts, db, nFetches, nDeletes,
                 lastResponse, deletedSince, settled>>

Next ==
  \/ Mount
  \/ \E r \in inflight : FetchOk(r)
  \/ \E r \in inflight : FetchFail(r)
  \/ \E p \in PagesOffered : handleChangePage(p)
  \/ \E i \in Ids : handleDeleteTransaction(i)
  \/ \E d \in pendingDeletes : DeleteOk(d)
  \/ \E d \in pendingDeletes : DeleteFail(d)
  \/ \E i \in Ids : openModal(Tx(i))
  \/ closeModal

Spec == Init /\ [][Next]_vars

\* ------------------------------------------------------------- claims ----
\* the step just taken settled a request in the way `op`
Settles(op) == settled' # settled /\ settled'.op = op

\* C1: the step in which a DELETE of X resolves leaves X out of the local
\* list, raises the success notification exactly once and leaves
\* totalTransactions as it was; with no reload completed since the click,
\* that is also the count shown when the delete was started.
C1_DeleteRemovesNotifiesKeepsTotal ==
  [][Settles("deleteOk") =>
       /\ settled'.req.id \notin IdsOf(transactions')
       /\ toasts' = toasts + 1
       /\ totalTransactions' = totalTransactions
       /\ (settled'.req.clean => totalTransactions' = settled'.req.total0)]_vars

C1_Witness ==
  /\ settled.op = "deleteOk"
  /\ settled.req.id \in IdsOf(settled.req.closure)
  /\ settled.req.id \notin IdsOf(transactions)
  /\ toasts = 1
  /\ totalTransactions = NumTx
  /\ Cardinality(db) < totalTransactions

\* C2: the local transaction list never holds more than limitPerPage items.
C2_AtMostOnePage == Len(transactions) <= limitPerPage

C2_Witness ==
  /\ settled.op = "fetchOk"
  /\ Len(transactions) = limitPerPage

\* C3: the local list is the page of the last resolved GET without the
\* entries deleted with success since then (empty before any GET resolved),
\* so it holds nothing that GET did not return.
C3_ListIsLastPageMinusDeletes ==
  /\ lastResponse = EmptyObject => transactions = <<>>
  /\ lastResponse # EmptyObject =>
       /\ transactions =
            SelectSeq(lastResponse.transactions,
                      LAMBDA t : t.id \notin deletedSince)
       /\ IdsOf(transactions) \subseteq IdsOf(lastResponse.transactions)

\* C4: once a GET has resolved, balance and totalTransactions are those of
\* the last resolved GET, and no step other than a GET resolving changes
\* either of them.
C4_BalanceFromLastResponse ==
  /\ [](lastResponse # EmptyObject =>
          /\ balance = lastResponse.balance
          /\ totalTransactions = lastResponse.totalTransactions)
  /\ [][(balance' # balance \/ totalTransactions' # totalTransactions)
          => Settles("fetchOk")]_vars

C4_Witness ==
  /\ settled.op = "deleteOk"
  /\ lastResponse # EmptyObject
  /\ balance = lastResponse.balance
  /\ balance # GetTransactions(db, currentPage, limitPerPage).balance
  /\ totalTransactions # Len(transactions)
  /\ editingTransaction # EmptyObject

\* C5: a step that moves currentPage issues exactly one GET, for the new
\* page at limitPerPage; mounting issues exactly one GET, the first; no
\* other step issues a GET.
C5_OneFetchPerPageChange ==
  [][/\ currentPage' # currentPage =>
          /\ nFetches' = nFetches + 1
          /\ Cardinality(inflight' \ inflight) = 1
          /\ \A r \in inflight' \ inflight :
               r.page = currentPage' /\ r.limit = limitPerPage
     /\ (~mounted /\ mounted') =>
          /\ nFetches = 0 /\ nFetches' = 1
          /\ Cardinality(inflight' \ inflight) = 1
     /\ (currentPage' = currentPage /\ mounted) =>
          /\ nFetches' = nFetches
          /\ inflight' \subseteq inflight]_vars

C5_Witness ==
  /\ currentPage = 2
  /\ nFetches = 2
  /\ inflight = {[seq |-> 2, page |-> 2, limit |-> limitPerPage]}

\* C6: exactly one GET is in flight while loadingCards is true and none
\* while it is false.
C6_BusyIffOneInFlight ==
  /\ loadingCards => Cardinality(inflight) = 1
  /\ ~loadingCards => inflight = {}

\* C8: a reload whose GET rejects changes neither the local list nor balance
\* nor totalTransactions, neither when it is issued nor when it fails, and
\* leaves loadingCards true; only a GET that resolves clears loadingCards.
C8_FailedReloadKeepsStateAndFlag ==
  [][/\ (nFetches' # nFetches \/ Settles("fetchFail")) =>
          /\ transactions' = transactions
          /\ balance' = balance
          /\ totalTransactions' = totalTransactions
          /\ loadingCards'
     /\ (loadingCards /\ ~loadingCards') => Settles("fetchOk")]_vars

C8_Witness ==
  /\ settled.op = "fetchFail"
  /\ settled.req.page = 2
  /\ loadingCards
  /\ inflight = {}
  /\ transactions = lastResponse.transactions
  /\ Len(transactions) = limitPerPage

\* C9: the step in which a DELETE rejects changes neither the local list
\* nor balance nor totalTransactions nor currentPage and raises no
\* notification.
C9_FailedDeleteChangesNothing ==
  [][Settles("deleteFail") =>
       /\ transactions' = transactions
       /\ balance' = balance
       /\ totalTransactions' = totalTransactions
       /\ currentPage' = currentPage
       /\ toasts' = toasts]_vars

C9_Witness ==
  /\ settled.op = "deleteFail"
  /\ settled.req.id \in IdsOf(transactions)
  /\ toasts = 0

\* C10: when two deletes were both started before either resolved and both
\* resolved with no reload completing in between, neither id is in the local
\* list once the second has resolved.
C10_OverlappingDeletesBothRemoved ==
  (settled.op = "deleteOk" /\ settled.req.clean /\ settled.req.peers # {}) =>
    \A a \in settled.req.peers \cup {settled.req.id} :
      a \notin IdsOf(transactions)

\* at most one GET is ever in flight: the pagination control is not rendered
\* while loadingCards is true
AtMostOneInFlight == Cardinality(inflight) <= 1

====
